---------------------------- MODULE Spec2Model ----------------------------
(***************************************************************************)
(* Model of python/plugins/processing/algs/qgis/ExtentFromLayer.py:        *)
(* the "Polygon from layer extent" algorithm.  processAlgorithm either     *)
(* writes one rectangle for layer.extent() (layerExtent) or one rectangle  *)
(* per feature (featureExtent), reporting progress after each feature.     *)
(*                                                                         *)
(* Numbers.  The attribute values are Python floats (binary64).  They are  *)
(* modelled on a fixed grid: a finite value is an integer count k of       *)
(* grid steps and denotes k / Quantum; magnitudes above MaxMag overflow to *)
(* +-infinity, results between two grid points round to the nearest one    *)
(* (ties to even), so a product of two tiny sides underflows to 0, and     *)
(* inf - inf and inf * 0 give NaN.  This is the behaviour of binary64 in   *)
(* its subnormal range and at its overflow threshold; rounding of the      *)
(* 53-bit mantissa in between is not modelled.                             *)
(***************************************************************************)
EXTENDS Integers, Sequences, FiniteSets, TLC

\* grid steps per unit: the value 1.0 is Quantum steps
Quantum == 2
\* largest finite magnitude, in units
MaxReal == 16
\* largest number of features of a layer (all boxes)
MaxFeatures == 2
\* largest number of features of a layer (few boxes, long runs)
MaxFeaturesLong == 6

MaxMag == MaxReal * Quantum
PInf == MaxMag + 1
NInf == 0 - (MaxMag + 1)
NaN == MaxMag + 2

----------------------------------------------------------------------------
(* float arithmetic *)

IsNaN(a) == a = NaN
IsInf(a) == a = PInf \/ a = NInf
IsFinite(a) == ~IsNaN(a) /\ ~IsInf(a)

\* the float of a small Python int or literal (2, 2.0)
FromInt(k) == k * Quantum

\* an exact result brought into range
Overflow(k) == IF k > MaxMag THEN PInf ELSE IF k < 0 - MaxMag THEN NInf ELSE k

\* p / d for d > 0, rounded to the nearest integer, ties to even
RoundDiv(p, d) ==
    LET q == p \div d
        r == p % d
    IN  IF 2 * r < d THEN q
        ELSE IF 2 * r > d THEN q + 1
        ELSE IF q % 2 = 0 THEN q ELSE q + 1

FNeg(a) == IF IsNaN(a) THEN NaN ELSE 0 - a

FAdd(a, b) ==
    IF IsNaN(a) \/ IsNaN(b) THEN NaN
    ELSE IF IsInf(a) /\ IsInf(b) THEN (IF a = b THEN a ELSE NaN)
    ELSE IF IsInf(a) THEN a
    ELSE IF IsInf(b) THEN b
    ELSE Overflow(a + b)

FSub(a, b) == FAdd(a, FNeg(b))

Sign(a) == IF a > 0 THEN 1 ELSE IF a < 0 THEN 0 - 1 ELSE 0

FMul(a, b) ==
    IF IsNaN(a) \/ IsNaN(b) THEN NaN
    ELSE IF IsInf(a) \/ IsInf(b)
         THEN (IF a = 0 \/ b = 0 THEN NaN
               ELSE IF Sign(a) * Sign(b) > 0 THEN PInf ELSE NInf)
    ELSE Overflow(RoundDiv(a * b, Quantum))

\* a / b for a finite divisor b > 0
FDiv(a, b) ==
    IF IsNaN(a) THEN NaN
    ELSE IF IsInf(a) THEN a
    ELSE Overflow(RoundDiv(a * Quantum, b))

\* a <= b and a >= b on floats: false when either side is NaN
FLe(a, b) == ~IsNaN(a) /\ ~IsNaN(b) /\ a <= b
FGe(a, b) == FLe(b, a)

----------------------------------------------------------------------------
(* collaborators: QgsRectangle, QgsPoint, QgsGeometry, QgsFeature, writer, *)
(* progress                                                                *)

xMinimum(rect) == rect.xmin
yMinimum(rect) == rect.ymin
xMaximum(rect) == rect.xmax
yMaximum(rect) == rect.ymax
RectWidth(rect) == FSub(rect.xmax, rect.xmin)
RectHeight(rect) == FSub(rect.ymax, rect.ymin)

QgsPoint(x, y) == <<x, y>>
\* a polygon is the list of its rings
FromPolygon(rings) == rings

\* QgsFeature(): no geometry, no attributes
NullFeature == [geometry |-> <<>>, attrs |-> <<>>]
SetGeometry(feat, geometry) == [feat EXCEPT !.geometry = geometry]
SetAttributes(feat, attrs) == [feat EXCEPT !.attrs = attrs]

\* a call on a collaborator, as it is logged; the sink is handed the
\* feature's value at the time of the call
AddFeatureCall(feat) == [op |-> "addFeature", feat |-> feat, pct |-> 0 - 1]
SetPercentageCall(v) == [op |-> "setPercentage", feat |-> NullFeature, pct |-> v]

\* coordinates a bounding box is drawn from, in grid steps
XVals == {0 - MaxMag, 0, 1, FromInt(4)}
YVals == {0 - MaxMag, 0, 1, FromInt(2)}
\* what layer.extent() and geometry().boundingBox() can return
Boxes == {b \in [xmin : XVals, ymin : YVals, xmax : XVals, ymax : YVals] :
            b.xmin <= b.xmax /\ b.ymin <= b.ymax}
FewBoxes == {[xmin |-> 0, ymin |-> 0, xmax |-> FromInt(4), ymax |-> FromInt(2)],
             [xmin |-> 1, ymin |-> 1, xmax |-> 1, ymax |-> 1]}
NoBox == [xmin |-> NaN, ymin |-> NaN, xmax |-> NaN, ymax |-> NaN]

----------------------------------------------------------------------------
(* the algorithm *)

VARIABLES pc, byFeature, nFeatures, extent, features, geomReads,
          current, total, feat, calls, error

vars == <<pc, byFeature, nFeatures, extent, features, geomReads,
          current, total, feat, calls, error>>

\* lines 86-89, mutated: the flag is ignored
DispatchAlwaysFeature(flag) == "featureExtent"

\* processAlgorithm, lines 86-89
Dispatch(flag) == IF flag THEN "featureExtent" ELSE "layerExtent"

\* layerExtent, lines 95-122, mutated: HEIGHT and WIDTH change places
LayerAttrsSwapped(rect) ==
    LET minx == xMinimum(rect)
        miny == yMinimum(rect)
        maxx == xMaximum(rect)
        maxy == yMaximum(rect)
        height == RectHeight(rect)
        width == RectWidth(rect)
    IN  << minx, miny, maxx, maxy,
           FAdd(minx, FDiv(width, FromInt(2))),
           FAdd(miny, FDiv(height, FromInt(2))),
           FMul(width, height),
           FAdd(FMul(FromInt(2), width), FMul(FromInt(2), height)),
           width, height >>

\* layerExtent, lines 95-122, mutated: the perimeter subtracts
LayerAttrsPerimMinus(rect) ==
    LET minx == xMinimum(rect)
        miny == yMinimum(rect)
        maxx == xMaximum(rect)
        maxy == yMaximum(rect)
        height == RectHeight(rect)
        width == RectWidth(rect)
    IN  << minx, miny, maxx, maxy,
           FAdd(minx, FDiv(width, FromInt(2))),
           FAdd(miny, FDiv(height, FromInt(2))),
           FMul(width, height),
           FSub(FMul(FromInt(2), width), FMul(FromInt(2), height)),
           height, width >>

\* layerExtent, lines 95-104 and 111-122: the attribute list
LayerAttrs(rect) ==
    LET minx == xMinimum(rect)
        miny == yMinimum(rect)
        maxx == xMaximum(rect)
        maxy == yMaximum(rect)
        height == RectHeight(rect)
        width == RectWidth(rect)
        cntx == FAdd(minx, FDiv(width, FromInt(2)))
        cnty == FAdd(miny, FDiv(height, FromInt(2)))
        area == FMul(width, height)
        perim == FAdd(FMul(FromInt(2), width), FMul(FromInt(2), height))
    IN  << minx, miny, maxx, maxy, cntx, cnty, area, perim, height, width >>

\* layerExtent, lines 106-108: the polygon
LayerGeometry(rect) ==
    LET minx == xMinimum(rect)
        miny == yMinimum(rect)
        maxx == xMaximum(rect)
        maxy == yMaximum(rect)
    IN  FromPolygon(<< << QgsPoint(minx, miny), QgsPoint(minx, maxy),
                          QgsPoint(maxx, maxy), QgsPoint(maxx, miny),
                          QgsPoint(minx, miny) >> >>)

\* layerExtent, lines 94-123: the feature that is written
LayerFeature(rect) ==
    SetAttributes(SetGeometry(NullFeature, LayerGeometry(rect)), LayerAttrs(rect))

\* featureExtent, lines 132-158, mutated: the area is width * width
FeatureAttrsSquare(rect) ==
    LET minx == xMinimum(rect)
        miny == yMinimum(rect)
        maxx == xMaximum(rect)
        maxy == yMaximum(rect)
        height == RectHeight(rect)
        width == RectWidth(rect)
    IN  << minx, miny, maxx, maxy,
           FAdd(minx, FDiv(width, FromInt(2))),
           FAdd(miny, FDiv(height, FromInt(2))),
           FMul(width, width),
           FAdd(FMul(FromInt(2), width), FMul(FromInt(2), height)),
           height, width >>

\* featureExtent, lines 132-141 and 147-158: the attribute list
FeatureAttrs(rect) ==
    LET minx == xMinimum(rect)
        miny == yMinimum(rect)
        maxx == xMaximum(rect)
        maxy == yMaximum(rect)
        height == RectHeight(rect)
        width == RectWidth(rect)
        cntx == FAdd(minx, FDiv(width, FromInt(2)))
        cnty == FAdd(miny, FDiv(height, FromInt(2)))
        area == FMul(width, height)
        perim == FAdd(FMul(FromInt(2), width), FMul(FromInt(2), height))
    IN  << minx, miny, maxx, maxy, cntx, cnty, area, perim, height, width >>

\* featureExtent, lines 142-145, mutated: the ring is not closed on its
\* first vertex
FeatureGeometryOpen(rect) ==
    LET minx == xMinimum(rect)
        miny == yMinimum(rect)
        maxx == xMaximum(rect)
        maxy == yMaximum(rect)
    IN  FromPolygon(<< << QgsPoint(minx, miny), QgsPoint(minx, maxy),
                          QgsPoint(maxx, maxy), QgsPoint(maxx, miny),
                          QgsPoint(maxx, maxy) >> >>)

\* featureExtent, lines 142-145: the polygon
FeatureGeometry(rect) ==
    LET minx == xMinimum(rect)
        miny == yMinimum(rect)
        maxx == xMaximum(rect)
        maxy == yMaximum(rect)
    IN  FromPolygon(<< << QgsPoint(minx, miny), QgsPoint(minx, maxy),
                          QgsPoint(maxx, maxy), QgsPoint(maxx, miny),
                          QgsPoint(minx, miny) >> >>)

\* featureExtent, lines 131-159, mutated: the attributes are set only on a
\* feature that has none yet
FeatureExtentBodySetOnce(f, rect) ==
    IF f.attrs = <<>>
    THEN SetAttributes(SetGeometry(f, FeatureGeometry(rect)), FeatureAttrs(rect))
    ELSE SetGeometry(f, FeatureGeometry(rect))

\* featureExtent, lines 131-159: the loop body's update of the one
\* QgsFeature that all iterations share
FeatureExtentBody(f, rect) ==
    SetAttributes(SetGeometry(f, FeatureGeometry(rect)), FeatureAttrs(rect))

\* line 128: total = 100.0 / len(features), kept as an exact fraction.
\* binary64 rounding of the quotient and of current * total does not change
\* the truncated percentage for the feature counts of this model.
Total(len) == [num |-> 100, den |-> len]
NoTotal == [num |-> 0, den |-> 1]

\* line 162, mutated: the position counts from one
PercentageFromOne(cur, tot) == ((cur + 1) * tot.num) \div tot.den

\* line 162: int(current * total)
Percentage(cur, tot) == (cur * tot.num) \div tot.den

\* lines 161-162, mutated: the progress is reported before the write
IterCallsReversed(f, cur, tot) ==
    << SetPercentageCall(Percentage(cur, tot)), AddFeatureCall(f) >>

\* lines 161-162: the two calls that end an iteration
IterCalls(f, cur, tot) ==
    << AddFeatureCall(f), SetPercentageCall(Percentage(cur, tot)) >>

\* line 130, mutated: the loop stops one feature early
HasNextShort(done, len) == done < len - 1

\* line 130: the iterator still has a feature to yield
HasNext(done, len) == done < len

Start(N) ==
    /\ pc = "start"
    /\ byFeature \in BOOLEAN
    /\ nFeatures \in 0..N
    /\ extent = NoBox
    /\ features = <<>>
    /\ geomReads = <<>>
    /\ current = 0 - 1
    /\ total = NoTotal
    /\ feat = NullFeature
    /\ calls = <<>>
    /\ error = "none"

Init == Start(MaxFeatures)

InitLong == Start(MaxFeaturesLong)

\* processAlgorithm with BY_FEATURE false: lines 86-89 and layerExtent, 93-124
ProcessAlgorithmLayer(S) ==
    /\ pc = "start"
    /\ Dispatch(byFeature) = "layerExtent"
    /\ \E rect \in S :
          /\ extent' = rect
          /\ feat' = LayerFeature(rect)
          /\ calls' = Append(calls, AddFeatureCall(LayerFeature(rect)))
    /\ pc' = "done"
    /\ UNCHANGED <<byFeature, nFeatures, features, geomReads, current, total, error>>

\* processAlgorithm with BY_FEATURE true: lines 86-87 and featureExtent, 127-129
FeatureExtentBegin ==
    /\ pc = "start"
    /\ Dispatch(byFeature) = "featureExtent"
    /\ IF nFeatures = 0
       THEN /\ pc' = "raised"
            /\ error' = "ZeroDivisionError"
            /\ UNCHANGED <<total, feat>>
       ELSE /\ pc' = "loop"
            /\ total' = Total(nFeatures)
            /\ feat' = NullFeature
            /\ UNCHANGED error
    /\ UNCHANGED <<byFeature, nFeatures, extent, features, geomReads, current, calls>>

\* featureExtent, lines 130-162: one iteration of the loop
FeatureExtentIter(S) ==
    /\ pc = "loop"
    /\ HasNext(Len(features), nFeatures)
    /\ \E rect \in S :
          /\ features' = Append(features, rect)
          /\ geomReads' = Append(geomReads, Len(features) + 1)
          /\ current' = current + 1
          /\ feat' = FeatureExtentBody(feat, rect)
          /\ calls' = calls \o IterCalls(FeatureExtentBody(feat, rect), current + 1, total)
    /\ UNCHANGED <<pc, byFeature, nFeatures, extent, total, error>>

\* featureExtent, line 130: the iterator is exhausted; processAlgorithm, line 91
FeatureExtentEnd ==
    /\ pc = "loop"
    /\ ~HasNext(Len(features), nFeatures)
    /\ pc' = "done"
    /\ UNCHANGED <<byFeature, nFeatures, extent, features, geomReads,
                   current, total, feat, calls, error>>

Next ==
    \/ ProcessAlgorithmLayer(Boxes)
    \/ FeatureExtentBegin
    \/ FeatureExtentIter(Boxes)
    \/ FeatureExtentEnd

NextLong ==
    \/ ProcessAlgorithmLayer(FewBoxes)
    \/ FeatureExtentBegin
    \/ FeatureExtentIter(FewBoxes)
    \/ FeatureExtentEnd

Spec == Init /\ [][Next]_vars

SpecLong == InitLong /\ [][NextLong]_vars

\* the code is synchronous and single-threaded: a step that can be taken is taken
FairSpecLong == InitLong /\ [][NextLong]_vars /\ WF_vars(NextLong)

----------------------------------------------------------------------------
(* what the collaborators have seen *)

IsAddFeature(c) == c.op = "addFeature"
IsSetPercentage(c) == c.op = "setPercentage"
Written == [i \in 1..Len(SelectSeq(calls, IsAddFeature)) |->
              SelectSeq(calls, IsAddFeature)[i].feat]
Reported == [i \in 1..Len(SelectSeq(calls, IsSetPercentage)) |->
               SelectSeq(calls, IsSetPercentage)[i].pct]

TypeOK ==
    /\ pc \in {"start", "loop", "done", "raised"}
    /\ byFeature \in BOOLEAN
    /\ nFeatures \in Nat
    /\ Len(features) <= nFeatures
    /\ error \in {"none", "ZeroDivisionError"}

----------------------------------------------------------------------------
(* properties *)

ExampleBox == [xmin |-> 0, ymin |-> 0, xmax |-> FromInt(4), ymax |-> FromInt(2)]

\* the attribute tuple as section 8 of the specification writes it
ExpectedAttrs(B) ==
    LET width == FSub(B.xmax, B.xmin)
        height == FSub(B.ymax, B.ymin)
    IN  << B.xmin, B.ymin, B.xmax, B.ymax,
           FAdd(B.xmin, FDiv(width, FromInt(2))),
           FAdd(B.ymin, FDiv(height, FromInt(2))),
           FMul(width, height),
           FMul(FromInt(2), FAdd(width, height)),
           height, width >>

\* C1: for every box with minX <= maxX and minY <= maxY, layerExtent emits
\* one record whose attributes are [minX, minY, maxX, maxY, minX + width/2,
\* minY + height/2, width*height, 2*(width+height), height, width], in this
\* order; the box {0,0,4,2} gives [0,0,4,2,2,1,8,12,2,4].
C1_LayerAttributes ==
    (pc = "done" /\ ~byFeature /\ FLe(extent.xmin, extent.xmax)
                 /\ FLe(extent.ymin, extent.ymax)) =>
        /\ Len(Written) = 1
        /\ Len(Written[1].attrs) = 10
        /\ Written[1].attrs = ExpectedAttrs(extent)
        /\ (extent = ExampleBox =>
              Written[1].attrs = << 0, 0, FromInt(4), FromInt(2), FromInt(2), FromInt(1),
                                    FromInt(8), FromInt(12), FromInt(2), FromInt(4) >>)

C1_Witness ==
    /\ pc = "done" /\ ~byFeature
    /\ extent = ExampleBox
    /\ Len(Written) = 1
    /\ Written[1].attrs[7] = FromInt(8)

\* C2: for a layer of n >= 1 features, featureExtent calls addFeature exactly
\* n times, the i-th call for the i-th feature, and the attributes of the i-th
\* record are those layerExtent computes for the i-th feature's bounding box.
C2_PerFeatureRecords ==
    (pc = "done" /\ byFeature /\ nFeatures >= 1) =>
        /\ Len(Written) = nFeatures
        /\ Len(features) = nFeatures
        /\ \A i \in 1..Len(Written) :
              /\ geomReads[i] = i
              /\ Written[i].attrs = LayerAttrs(features[i])

C2_Witness ==
    /\ pc = "done" /\ byFeature /\ nFeatures >= 2
    /\ Len(Written) = nFeatures
    /\ features[1] = ExampleBox
    /\ features[2] # ExampleBox
    /\ Written[1].attrs # Written[2].attrs

\* C3: with zero features in per-feature mode featureExtent completes
\* normally: no record, no progress report, no division error.
C3_EmptyCompletes ==
    (byFeature /\ nFeatures = 0 /\ pc # "start") =>
        /\ pc = "done"
        /\ error = "none"
        /\ calls = <<>>

\* C4: every emitted geometry, in either mode, is one ring of 5 vertices
\* (minX,minY), (minX,maxY), (maxX,maxY), (maxX,minY), (minX,minY), first
\* equal to last, on the box given by the record's first four attributes.
C4_ClosedRing ==
    \A i \in 1..Len(Written) :
        LET g == Written[i].geometry
            a == Written[i].attrs
        IN  /\ Len(g) = 1
            /\ Len(g[1]) = 5
            /\ g[1][1] = g[1][5]
            /\ g[1] = << <<a[1], a[2]>>, <<a[1], a[4]>>, <<a[3], a[4]>>,
                         <<a[3], a[2]>>, <<a[1], a[2]>> >>

C4_Witness ==
    /\ pc = "done" /\ byFeature
    /\ Len(Written) >= 2
    /\ Written[2].geometry[1][3] # Written[2].geometry[1][1]
    /\ Written[1].geometry # Written[2].geometry

\* C5: with BY_FEATURE false the only effect on the collaborators is one
\* addFeature call built from layer.extent(), whatever the number of
\* features; setPercentage is never called and no feature is read.
C5_WholeLayerFrame ==
    ~byFeature =>
        /\ Reported = <<>>
        /\ geomReads = <<>>
        /\ features = <<>>
        /\ Len(calls) <= 1
        /\ (pc = "done" =>
              /\ Len(calls) = 1
              /\ calls[1].op = "addFeature"
              /\ SubSeq(calls[1].feat.attrs, 1, 4) =
                    << extent.xmin, extent.ymin, extent.xmax, extent.ymax >>)

C5_Witness ==
    /\ pc = "done" /\ ~byFeature /\ nFeatures >= 1
    /\ Len(calls) = 1
    /\ extent \in Boxes

\* C6: in per-feature mode setPercentage is called once after each
\* addFeature and before the next one, with an integer, and the reported
\* values never decrease.
C6_ProgressAfterEachWrite ==
    byFeature =>
        /\ \A k \in 1..Len(calls) :
              calls[k].op = IF k % 2 = 1 THEN "addFeature" ELSE "setPercentage"
        /\ Len(calls) % 2 = 0
        /\ \A k \in 1..Len(Reported) : Reported[k] \in Int
        /\ \A j, k \in 1..Len(Reported) : j <= k => Reported[j] <= Reported[k]

C6_Witness ==
    /\ pc = "done" /\ byFeature
    /\ Len(Reported) >= 3
    /\ Reported[2] < Reported[3]

\* C7: featureExtent terminates after one pass that reads each feature's
\* geometry exactly once, in order, none skipped and none revisited (on an
\* empty layer the pass never starts and the call ends in the division error).
C7_SinglePassTerminates ==
    /\ [](byFeature => /\ Len(geomReads) <= nFeatures
                       /\ \A i \in 1..Len(geomReads) : geomReads[i] = i)
    /\ [](byFeature /\ pc = "done" => Len(geomReads) = nFeatures)
    /\ <>(pc \in {"done", "raised"})

C7_Witness ==
    /\ pc = "done" /\ byFeature
    /\ nFeatures >= 3
    /\ Len(geomReads) = nFeatures

\* C8: with n >= 1 features the value reported after the feature at 0-based
\* position i is int(i * (100.0 / n)): the first is 0, all lie in 0..99 and
\* 100 is never reported.
C8_PercentageValues ==
    (byFeature /\ nFeatures >= 1) =>
        /\ \A k \in 1..Len(Reported) :
              /\ Reported[k] = ((k - 1) * 100) \div nFeatures
              /\ Reported[k] \in 0..99
        /\ (Len(Reported) >= 1 => Reported[1] = 0)
        /\ (pc = "done" => Len(Reported) = nFeatures)

C8_Witness ==
    /\ pc = "done" /\ byFeature /\ nFeatures = 3
    /\ Reported = << 0, 33, 66 >>

\* the ten attributes a of a record written for the box B, as C9 states them
C9_Record(B, a) ==
    /\ FGe(a[10], 0) /\ FGe(a[9], 0) /\ FGe(a[7], 0) /\ FGe(a[8], 0)
    /\ FLe(a[1], a[5]) /\ FLe(a[5], a[3])
    /\ FLe(a[2], a[6]) /\ FLe(a[6], a[4])
    /\ ((a[7] = 0) <=> (a[10] = 0 \/ a[9] = 0))
    /\ ((a[8] = 0) <=> (B.xmin = B.xmax /\ B.ymin = B.ymax))

\* the same with AREA = 0 only implied by a zero side, for finite sides
C9_RecordFinite(B, a) ==
    (IsFinite(a[10]) /\ IsFinite(a[9])) =>
        /\ FGe(a[10], 0) /\ FGe(a[9], 0) /\ FGe(a[7], 0) /\ FGe(a[8], 0)
        /\ FLe(a[1], a[5]) /\ FLe(a[5], a[3])
        /\ FLe(a[2], a[6]) /\ FLe(a[6], a[4])
        /\ ((a[10] = 0 \/ a[9] = 0) => a[7] = 0)
        /\ ((a[8] = 0) <=> (B.xmin = B.xmax /\ B.ymin = B.ymax))

\* the box the i-th written record was computed from
InputBox(i) == IF byFeature THEN features[i] ELSE extent

\* C9 (as claimed): every record has WIDTH, HEIGHT, AREA, PERIM >= 0,
\* MINX <= CNTX <= MAXX, MINY <= CNTY <= MAXY, AREA = 0 exactly when WIDTH = 0
\* or HEIGHT = 0, and PERIM = 0 exactly when the box is a single point.
C9_Original ==
    \A i \in 1..Len(Written) : C9_Record(InputBox(i), Written[i].attrs)

\* C9 (amended): for boxes whose WIDTH and HEIGHT are finite, every record has
\* WIDTH, HEIGHT, AREA, PERIM >= 0, MINX <= CNTX <= MAXX, MINY <= CNTY <= MAXY,
\* AREA = 0 whenever WIDTH = 0 or HEIGHT = 0, and PERIM = 0 exactly when the
\* box is a single point.
C9_Amended ==
    \A i \in 1..Len(Written) : C9_RecordFinite(InputBox(i), Written[i].attrs)

C9_Witness ==
    /\ pc = "done"
    /\ Len(Written) >= 1
    /\ \E i \in 1..Len(Written) :
          /\ Written[i].attrs[10] = 1
          /\ Written[i].attrs[9] = 1
          /\ Written[i].attrs[7] = 0

\* C10: the one QgsFeature featureExtent reuses carries, at each addFeature,
\* only values of the current feature's bounding box (geometry and all ten
\* attributes are overwritten), and records already handed to the sink are
\* not changed by later iterations.
C10_NoCarryOver ==
    /\ [](byFeature =>
            /\ \A i \in 1..Len(Written) :
                  /\ Written[i] = FeatureExtentBody(NullFeature, features[i])
                  /\ Len(Written[i].attrs) = 10
            /\ (Len(Written) >= 1 => feat = Written[Len(Written)]))
    /\ [][\A i \in 1..Len(Written) :
             Len(Written') >= i /\ Written'[i] = Written[i]]_vars

C10_Witness ==
    /\ pc = "done" /\ byFeature
    /\ Len(Written) >= 2
    /\ features[1] # features[2]
    /\ Written[1] # Written[2]
    /\ feat = Written[Len(Written)]

=============================================================================
